---- MODULE Spec2Model ----
(***************************************************************************)
(* PodClaw: the script -> speech -> timeline -> subtitles -> video         *)
(* pipeline (podclaw/generator.py) with the pure functions it calls        *)
(* (podclaw/script.py, podclaw/config.py, podclaw/tts.py).                 *)
(*                                                                         *)
(* Text is a tuple of characters.  A character is a one-element string;    *)
(* "[" "]" " " and "\n" are the characters the parser looks at, every      *)
(* other string stands for one ordinary (non-blank, non-bracket)           *)
(* character run.                                                          *)
(***************************************************************************)
EXTENDS Integers, Sequences, FiniteSets, TLC

(* ------------------------------------------------------------------ *)
(* str helpers (Python built-ins used by script.py)                    *)
(* ------------------------------------------------------------------ *)

NL == "\n"

IsSpace(c) == c \in {" ", NL}

RECURSIVE lstrip(_)
lstrip(s) == IF s = <<>> THEN s
             ELSE IF IsSpace(Head(s)) THEN lstrip(Tail(s)) ELSE s

RECURSIVE rstrip(_)
rstrip(s) == IF s = <<>> THEN s
             ELSE IF IsSpace(s[Len(s)]) THEN rstrip(SubSeq(s, 1, Len(s) - 1)) ELSE s

\* str.strip()
strip(s) == rstrip(lstrip(s))

Contains(s, c) == \E i \in 1..Len(s) : s[i] = c

\* str.index(c): position (1-based) of the first c
index(s, c) == CHOOSE i \in 1..Len(s) : s[i] = c /\ \A j \in 1..(i - 1) : s[j] # c

\* str.split("\n"): "" gives [""]
RECURSIVE split(_)
split(s) == IF ~Contains(s, NL) THEN <<s>>
            ELSE LET i == index(s, NL)
                 IN  <<SubSeq(s, 1, i - 1)>> \o split(SubSeq(s, i + 1, Len(s)))

\* " ".join(parts)
RECURSIVE join(_)
join(parts) == IF parts = <<>> THEN <<>>
               ELSE IF Len(parts) = 1 THEN parts[1]
               ELSE parts[1] \o <<" ">> \o join(Tail(parts))

(* ------------------------------------------------------------------ *)
(* script.py: parse_script                                             *)
(* ------------------------------------------------------------------ *)

\* the test of line 175 without its second half
IsTagLineAnyOpeningBracket(line) == line # <<>> /\ line[1] = "["

\* the test of script.py line 175
IsTagLine(line) == line # <<>> /\ line[1] = "[" /\ Contains(line, "]")

\* the flush of lines 177-182 and 193-197; a None speaker and an empty
\* speaker are both falsy, and both are written <<>> here
Flush(st) ==
    IF st.current_speaker # <<>> /\ st.current_text # <<>>
    THEN Append(st.segments,
                [speaker |-> st.current_speaker, text |-> strip(join(st.current_text))])
    ELSE st.segments

\* one iteration of the loop of lines 169-190
ParseLine(st, rawline) ==
    LET line == strip(rawline) IN
    IF line = <<>> THEN st
    ELSE IF IsTagLine(line)
    THEN LET flushed     == st.current_speaker # <<>> /\ st.current_text # <<>>
             text0       == IF flushed THEN <<>> ELSE st.current_text
             bracket_end == index(line, "]")
             speaker     == strip(SubSeq(line, 2, bracket_end - 1))
             remaining   == strip(SubSeq(line, bracket_end + 1, Len(line)))
         IN  [segments        |-> Flush(st),
              current_speaker |-> speaker,
              current_text    |-> IF remaining # <<>> THEN Append(text0, remaining) ELSE text0]
    ELSE IF st.current_speaker # <<>>
    THEN [st EXCEPT !.current_text = Append(@, line)]
    ELSE st

RECURSIVE ParseLines(_, _)
ParseLines(st, lines) ==
    IF lines = <<>> THEN st ELSE ParseLines(ParseLine(st, Head(lines)), Tail(lines))

parse_script(raw_script) ==
    Flush(ParseLines([segments |-> <<>>, current_speaker |-> <<>>, current_text |-> <<>>],
                     split(strip(raw_script))))

\* line.index("]") of line 184 raises ValueError for a line without "]";
\* the loop reaches it for the trimmed non-blank lines that pass line 175
parse_script_raises(raw_script) ==
    LET lines == split(strip(raw_script)) IN
    \E i \in 1..Len(lines) :
        IsTagLine(strip(lines[i])) /\ ~Contains(strip(lines[i]), "]")

(* ------------------------------------------------------------------ *)
(* config.py: Voice, VOICES, PodclawConfig.get_voice / get_all_voices  *)
(* ------------------------------------------------------------------ *)

\* a Python Optional[str]: None, or a str (which may be empty)
None == [is_none |-> TRUE, value |-> <<>>]
Some(text) == [is_none |-> FALSE, value |-> text]

\* Python truthiness of an Optional[str]: None and "" are both falsy
Truthy(opt) == ~opt.is_none /\ opt.value # <<>>

\* the voice names and ids a roster is drawn from, and str.lower() on them
VoiceNames == {"roger", "ROGER", "george", "callum", "myvoice", "MyVoice", "RawId9"}

lower(name) ==
    CASE name = "ROGER"   -> "roger"
      [] name = "MyVoice" -> "myvoice"
      [] name = "RawId9"  -> "rawid9"
      [] OTHER            -> name

Voice(name, voice_id, description) ==
    [name |-> name, voice_id |-> voice_id, description |-> description]

\* built-in presets, keyed by lower-case name
VOICES ==
    [k \in {"roger", "george", "callum"} |->
        CASE k = "roger"  -> Voice("Roger", "CwhRBWXzGAHq8TQ4Fs17", "Laid-back, casual, resonant male")
          [] k = "george" -> Voice("George", "JBFqnCBsd6RMkjVDRZzb", "Warm storyteller, British male")
          [] k = "callum" -> Voice("Callum", "N2lVS1w4EtoT3dr4eOWO", "Husky trickster male")]

\* custom_voices is a dict: a function from its keys (as written by the user)
get_voice(custom_voices, name) ==
    LET name_lower == lower(name) IN
    IF name_lower \in DOMAIN custom_voices THEN custom_voices[name_lower]
    ELSE IF name_lower \in DOMAIN VOICES THEN VOICES[name_lower]
    ELSE Voice(name, name, "Custom voice ID")

get_all_voices(config) ==
    [i \in 1..Len(config.voices) |-> get_voice(config.custom_voices, config.voices[i])]

(* ------------------------------------------------------------------ *)
(* script.py: assign_voices, SPEAKER_ROLES, generate_demo_script       *)
(* ------------------------------------------------------------------ *)

\* speaker_to_voice is an insertion-ordered dict: a sequence of <<speaker, voice>>
HasKey(dict, k) == \E i \in 1..Len(dict) : dict[i][1] = k
Lookup(dict, k) == dict[CHOOSE i \in 1..Len(dict) : dict[i][1] = k][2]

\* the first loop with the index taken one past the number of speakers seen
RECURSIVE SpeakerToVoiceOffByOne(_, _, _)
SpeakerToVoiceOffByOne(dict, segments, voices) ==
    IF segments = <<>> THEN dict
    ELSE LET speaker     == Head(segments).speaker
             voice_index == (Len(dict) + 1) % Len(voices)
         IN  SpeakerToVoiceOffByOne(IF HasKey(dict, speaker) THEN dict
                                    ELSE Append(dict, <<speaker, voices[voice_index + 1]>>),
                                    Tail(segments), voices)

\* the first loop of assign_voices (lines 211-215); voices is non-empty
RECURSIVE SpeakerToVoice(_, _, _)
SpeakerToVoice(dict, segments, voices) ==
    IF segments = <<>> THEN dict
    ELSE LET speaker     == Head(segments).speaker
             voice_index == Len(dict) % Len(voices)
         IN  SpeakerToVoice(IF HasKey(dict, speaker) THEN dict
                            ELSE Append(dict, <<speaker, voices[voice_index + 1]>>),
                            Tail(segments), voices)

\* line 214 divides by len(voices): ZeroDivisionError on the first segment
\* when the roster is empty
assign_voices_raises(segments, config) ==
    segments # <<>> /\ Len(config.voices) = 0

\* the voice taken by the position of the segment, not by its speaker
assign_voices_by_position(segments, config) ==
    LET voices == get_all_voices(config)
    IN  [i \in 1..Len(segments) |->
            [speaker |-> segments[i].speaker,
             text    |-> segments[i].text,
             voice   |-> voices[((i - 1) % Len(voices)) + 1]]]

assign_voices(segments, config) ==
    LET voices           == get_all_voices(config)
        speaker_to_voice == SpeakerToVoice(<<>>, segments, voices)
    IN  [i \in 1..Len(segments) |->
            [speaker |-> segments[i].speaker,
             text    |-> segments[i].text,
             voice   |-> Lookup(speaker_to_voice, segments[i].speaker)]]

Formats == {"debate", "monologue", "news_recap", "interview", "storytelling"}

SPEAKER_ROLES ==
    [f \in Formats |->
        CASE f = "debate"       -> <<"HOST_A", "HOST_B">>
          [] f = "monologue"    -> <<"HOST">>
          [] f = "news_recap"   -> <<"ANCHOR", "CORRESPONDENT">>
          [] f = "interview"    -> <<"INTERVIEWER", "GUEST">>
          [] f = "storytelling" -> <<"NARRATOR", "COLOR">>]

\* one line of a demo script: "[role] sentence", the sentence being one
\* ordinary character, followed by the topic where the f-string inserts it
DemoLine(role, topic, with_topic) ==
    <<"[", role, "]", " ", "w">> \o (IF with_topic THEN <<" ">> \o topic ELSE <<>>)

\* the lines of a template joined by newlines; roles[i] speaks line i and
\* the lines in topic_lines mention the topic
RECURSIVE DemoLines(_, _, _, _)
DemoLines(roles, topic, topic_lines, i) ==
    IF i > Len(roles) THEN <<>>
    ELSE DemoLine(roles[i], topic, i \in topic_lines)
         \o (IF i < Len(roles) THEN <<NL>> ELSE <<>>)
         \o DemoLines(roles, topic, topic_lines, i + 1)

generate_demo_script(config) ==
    LET roles == SPEAKER_ROLES[config.format]
        a     == roles[1]
        b     == IF Len(roles) > 1 THEN roles[2] ELSE roles[1]
    IN  IF config.format = "monologue"
        THEN DemoLines([i \in 1..11 |-> "HOST"], config.topic, {1, 4, 10}, 1)
        ELSE IF config.format = "news_recap"
        THEN DemoLines([i \in 1..13 |-> IF i % 2 = 1 THEN "ANCHOR" ELSE "CORRESPONDENT"],
                       config.topic, {1, 12}, 1)
        ELSE DemoLines([i \in 1..14 |-> IF i % 2 = 1 THEN a ELSE b],
                       config.topic, {1, 4}, 1)

(* ------------------------------------------------------------------ *)
(* tts.py: _get_api_key                                                *)
(* ------------------------------------------------------------------ *)

\* key = config_key or os.environ.get("ELEVENLABS_API_KEY"); falsy raises
get_api_key_raises(config_key, env_key) == ~Truthy(config_key) /\ ~Truthy(env_key)

(* ------------------------------------------------------------------ *)
(* generator.py: PodcastGenerator, one process per generate() call     *)
(* ------------------------------------------------------------------ *)

\* the generate() calls (threads) and the PodcastGenerator instances
Runs == {"r1", "r2"}
Gens == {"g1", "g2"}

\* tempfile.mkdtemp returns a directory no other call returns: the scratch
\* directory made by call r is named r
NoDir == "none"

VARIABLES
    config,      \* [Gens -> PodclawConfig]         self.config
    work_dir,    \* [Gens -> Runs \cup {NoDir}]     self._work_dir
    gen,         \* [Runs -> Gens]                  the instance a call is made on
    callers,     \* the calls that are made
    args,        \* [Runs -> arguments of generate()]
    pc,          \* [Runs -> position in generate() / _run_pipeline()]
    err,         \* [Runs -> exception in flight, "" when none]
    loc,         \* [Runs -> local variables of _run_pipeline()]
    dirs,        \* scratch directories that exist
    files,       \* files in scratch directories: <<dir, name, index>>
    out_exists,  \* the output directory exists
    out_files,   \* files in the output directory: <<writer, kind>>
    env_key,     \* os.environ.get("ELEVENLABS_API_KEY")
    h,           \* [Runs -> what the call has done so far]
    call         \* a direct call of one function: its arguments and result

\* the state of the generate() calls
pipeline_vars == <<config, work_dir, gen, callers, args, pc, err, loc, dirs, files,
                   out_exists, out_files, env_key, h>>

vars == <<config, work_dir, gen, callers, args, pc, err, loc, dirs, files,
          out_exists, out_files, env_key, h, call>>

\* no function is called directly
NoCall == [fn |-> "none"]

\* the spec's pipeline states
STEPS == <<"SCRIPT", "SYNTHESIS", "AUDIO_CONCAT", "SUBTITLES", "BACKGROUND", "ASSEMBLE", "DONE">>

\* the progress stage vocabulary (cli.py _progress_callback icons)
STAGES == <<"script", "tts", "audio", "subtitles", "video", "done">>

\* the progress(...) call sites of _run_pipeline, the tag each passes and
\* the statement that follows it
ProgressSites == {"p_script", "p_script_ready", "p_tts", "p_tts_seg", "p_audio",
                  "p_audio_ready", "p_subs", "p_subs_ready", "p_bg", "p_bg_ready",
                  "p_assemble", "p_done"}

\* ProgressTag with "Audio ready" reported under the tag of the enclosing
\* "Step 2: TTS Synthesis" block
ProgressTagAudioAsTts(site) ==
    CASE site \in {"p_script", "p_script_ready"} -> "script"
      [] site \in {"p_tts", "p_tts_seg", "p_audio_ready"} -> "tts"
      [] site = "p_audio"                        -> "audio"
      [] site \in {"p_subs", "p_subs_ready"}     -> "subtitles"
      [] site \in {"p_bg", "p_bg_ready", "p_assemble"} -> "video"
      [] site = "p_done"                         -> "done"

ProgressTag(site) ==
    CASE site \in {"p_script", "p_script_ready"} -> "script"
      [] site \in {"p_tts", "p_tts_seg"}         -> "tts"
      [] site \in {"p_audio", "p_audio_ready"}   -> "audio"
      [] site \in {"p_subs", "p_subs_ready"}     -> "subtitles"
      [] site \in {"p_bg", "p_bg_ready", "p_assemble"} -> "video"
      [] site = "p_done"                         -> "done"

\* AfterProgress with the background block left out
AfterProgressSkipBackground(site) ==
    CASE site = "p_script"       -> "script_write"
      [] site = "p_script_ready" -> "p_tts"
      [] site = "p_tts"          -> "tts_setup"
      [] site = "p_tts_seg"      -> "tts_call"
      [] site = "p_audio"        -> "concat"
      [] site = "p_audio_ready"  -> "p_subs"
      [] site = "p_subs"         -> "srt"
      [] site = "p_subs_ready"   -> "p_assemble"
      [] site = "p_bg"           -> "background"
      [] site = "p_bg_ready"     -> "p_assemble"
      [] site = "p_assemble"     -> "assemble"
      [] site = "p_done"         -> "copy"

AfterProgress(site) ==
    CASE site = "p_script"       -> "script_write"
      [] site = "p_script_ready" -> "p_tts"
      [] site = "p_tts"          -> "tts_setup"
      [] site = "p_tts_seg"      -> "tts_call"
      [] site = "p_audio"        -> "concat"
      [] site = "p_audio_ready"  -> "p_subs"
      [] site = "p_subs"         -> "srt"
      [] site = "p_subs_ready"   -> "p_bg"
      [] site = "p_bg"           -> "background"
      [] site = "p_bg_ready"     -> "p_assemble"
      [] site = "p_assemble"     -> "assemble"
      [] site = "p_done"         -> "copy"

\* the pipeline state a statement of _run_pipeline belongs to
StepOf(p) ==
    CASE p \in {"p_script", "script_write", "script_parse", "p_script_ready"} -> "SCRIPT"
      [] p \in {"p_tts", "tts_setup", "p_tts_seg", "tts_call"}                -> "SYNTHESIS"
      [] p \in {"p_audio", "concat", "p_audio_ready"}                         -> "AUDIO_CONCAT"
      [] p \in {"p_subs", "srt", "p_subs_ready"}                              -> "SUBTITLES"
      [] p \in {"p_bg", "background", "p_bg_ready"}                           -> "BACKGROUND"
      [] p \in {"p_assemble", "assemble"}                                     -> "ASSEMBLE"
      [] p \in {"p_done", "copy"}                                             -> "DONE"

\* where control goes when a statement inside the try block raises
ExceptPc == "finally"

\* where control goes when synthesize_segment raises for a segment of
\* synthesize_all_segments (no handler: it leaves the loop and the function)
\* SynthFailurePc with a handler that goes round the loop again
SynthFailurePcRetry == "p_tts_seg"

SynthFailurePc == ExceptPc

\* MustProvideTopicOrScript testing "is None" where the code tests falsiness
MustProvideIsNone(cfg, script) ==
    cfg.topic = <<>> /\ script.is_none /\ cfg.custom_script.is_none

\* generator.py line 57
MustProvideTopicOrScript(cfg, script) ==
    cfg.topic = <<>> /\ ~Truthy(script) /\ ~Truthy(cfg.custom_script)

\* generator.py lines 85-90
RawScript(cfg, script) ==
    IF Truthy(script) THEN script.value
    ELSE IF Truthy(cfg.custom_script) THEN cfg.custom_script.value
    ELSE generate_demo_script(cfg)

Last(s) == s[Len(s)]

\* the call executes a statement of the step StepOf(pc)
Visit(r) == LET st == StepOf(pc[r])
            IN  IF h[r].trace # <<>> /\ Last(h[r].trace) = st THEN h[r].trace
                ELSE Append(h[r].trace, st)

Goto(r, p) == pc' = [pc EXCEPT ![r] = p]

\* an exception of the given kind leaves _run_pipeline
Raise(r, kind) == /\ pc' = [pc EXCEPT ![r] = ExceptPc]
                  /\ err' = [err EXCEPT ![r] = kind]

Cfg(r) == config[gen[r]]

(* lines 54-58: the topic override and the topic-or-script check *)
Generate(r) ==
    /\ r \in callers
    /\ pc[r] = "idle"
    /\ LET g    == gen[r]
           cfg1 == IF Truthy(args[r].topic)
                   THEN [config[g] EXCEPT !.topic = args[r].topic.value]
                   ELSE config[g]
       IN  /\ config' = [config EXCEPT ![g] = cfg1]
           /\ h' = [h EXCEPT ![r].cfg0 = config[g], ![r].called = TRUE]
           /\ IF MustProvideTopicOrScript(cfg1, args[r].script)
              THEN /\ Goto(r, "raised")
                   /\ err' = [err EXCEPT ![r] = "config"]
              ELSE /\ Goto(r, "mkdtemp")
                   /\ err' = err
    /\ UNCHANGED <<work_dir, gen, callers, args, loc, dirs, files, out_exists,
                   out_files, env_key>>
    /\ UNCHANGED call

(* line 60: self._work_dir = Path(tempfile.mkdtemp(prefix="podclaw_")) *)
Mkdtemp(r) ==
    /\ pc[r] = "mkdtemp"
    /\ \E ok \in BOOLEAN :
          IF ok
          THEN /\ work_dir' = [work_dir EXCEPT ![gen[r]] = r]
               /\ dirs' = dirs \cup {r}
               /\ h' = [h EXCEPT ![r].created = TRUE]
               /\ Goto(r, "mkoutdir")
               /\ err' = err
          ELSE /\ Goto(r, "raised")
               /\ err' = [err EXCEPT ![r] = "io"]
               /\ UNCHANGED <<work_dir, dirs, h>>
    /\ UNCHANGED <<config, gen, callers, args, loc, files, out_exists, out_files, env_key>>
    /\ UNCHANGED call

(* lines 61-62: output_dir.mkdir(parents=True, exist_ok=True), before the try *)
MkOutputDir(r) ==
    /\ pc[r] = "mkoutdir"
    /\ \E ok \in BOOLEAN :
          IF ok
          THEN /\ out_exists' = TRUE
               /\ h' = [h EXCEPT ![r].made_out = TRUE]
               /\ Goto(r, "p_script")
               /\ err' = err
          ELSE /\ Goto(r, "raised")
               /\ err' = [err EXCEPT ![r] = "io"]
               /\ UNCHANGED <<out_exists, h>>
    /\ UNCHANGED <<config, work_dir, gen, callers, args, loc, dirs, files, out_files, env_key>>
    /\ UNCHANGED call

(* lines 78-80: progress(stage, msg), at each of its call sites; the callback
   is called inline and what it raises propagates *)
Progress(r) ==
    /\ pc[r] \in ProgressSites
    /\ LET cb == args[r].on_progress IN
       IF cb = "none"
       THEN /\ h' = [h EXCEPT ![r].trace = Visit(r)]
            /\ Goto(r, AfterProgress(pc[r]))
            /\ err' = err
       ELSE /\ h' = [h EXCEPT ![r].trace = Visit(r),
                              ![r].log = Append(@, ProgressTag(pc[r]))]
            /\ \E raises \in (IF cb = "raises" THEN BOOLEAN ELSE {FALSE}) :
                  IF raises THEN Raise(r, "callback")
                  ELSE Goto(r, AfterProgress(pc[r])) /\ err' = err
    /\ UNCHANGED <<config, work_dir, gen, callers, args, loc, dirs, files, out_exists,
                   out_files, env_key>>
    /\ UNCHANGED call

(* lines 85-94: choose the raw script and write it to <work_dir>/script.txt *)
ScriptWrite(r) ==
    /\ pc[r] = "script_write"
    /\ LET d == work_dir[gen[r]] IN
       \E ok \in BOOLEAN :
          IF ok /\ d \in dirs
          THEN /\ files' = files \cup {<<d, "script", 0>>}
               /\ loc' = [loc EXCEPT ![r].raw_script = RawScript(Cfg(r), args[r].script),
                                     ![r].script_dir = d]
               /\ h' = [h EXCEPT ![r].trace = Visit(r), ![r].touched = @ \cup {d}]
               /\ Goto(r, "script_parse")
               /\ err' = err
          ELSE /\ Raise(r, "io")
               /\ h' = [h EXCEPT ![r].trace = Visit(r)]
               /\ UNCHANGED <<files, loc>>
    /\ UNCHANGED <<config, work_dir, gen, callers, args, dirs, out_exists, out_files, env_key>>
    /\ UNCHANGED call

(* lines 97-101: parse, the no-segments check, voice assignment *)
ScriptParse(r) ==
    /\ pc[r] = "script_parse"
    /\ LET segments == parse_script(loc[r].raw_script) IN
       IF segments = <<>>
       THEN Raise(r, "no_segments") /\ loc' = loc
       ELSE IF assign_voices_raises(segments, Cfg(r))
       THEN Raise(r, "zero_division") /\ loc' = loc
       ELSE /\ loc' = [loc EXCEPT ![r].segments = assign_voices(segments, Cfg(r))]
            /\ Goto(r, "p_script_ready")
            /\ err' = err
    /\ h' = [h EXCEPT ![r].trace = Visit(r), ![r].parsed = TRUE]
    /\ UNCHANGED <<config, work_dir, gen, callers, args, dirs, files, out_exists,
                   out_files, env_key>>
    /\ UNCHANGED call

(* generator.py lines 107-108 and tts.py lines 96-99: the API key, tts_dir,
   work_dir.mkdir(parents=True, exist_ok=True), results = [] *)
TtsSetup(r) ==
    /\ pc[r] = "tts_setup"
    /\ LET d == work_dir[gen[r]] IN
       IF get_api_key_raises(Cfg(r).elevenlabs_api_key, env_key)
       THEN Raise(r, "api_key") /\ UNCHANGED <<loc, dirs>> /\ h' = [h EXCEPT ![r].trace = Visit(r)]
       ELSE \E ok \in BOOLEAN :
              IF ok
              THEN /\ dirs' = dirs \cup {d}
                   /\ loc' = [loc EXCEPT ![r].tts_dir = d, ![r].results = <<>>]
                   /\ h' = [h EXCEPT ![r].trace = Visit(r), ![r].touched = @ \cup {d}]
                   /\ Goto(r, IF loc[r].segments = <<>> THEN "p_audio" ELSE "p_tts_seg")
                   /\ err' = err
              ELSE /\ Raise(r, "io")
                   /\ h' = [h EXCEPT ![r].trace = Visit(r)]
                   /\ UNCHANGED <<loc, dirs>>
    /\ UNCHANGED <<config, work_dir, gen, callers, args, files, out_exists, out_files, env_key>>
    /\ UNCHANGED call

(* tts.py lines 101, 106-113: synthesize_segment for segment i (request, then
   mkdir of the parent and write of the file), results.append *)
TtsCall(r) ==
    /\ pc[r] = "tts_call"
    /\ LET i == Len(loc[r].results)
           d == loc[r].tts_dir
       IN  \E ok \in BOOLEAN :
              IF ok
              THEN /\ dirs' = dirs \cup {d}
                   /\ files' = files \cup {<<d, "segment", i>>}
                   /\ loc' = [loc EXCEPT ![r].results = Append(@, <<d, "segment", i>>)]
                   /\ h' = [h EXCEPT ![r].trace = Visit(r), ![r].touched = @ \cup {d},
                                     ![r].synth_calls = Append(@, i)]
                   /\ Goto(r, IF i + 1 < Len(loc[r].segments) THEN "p_tts_seg" ELSE "p_audio")
                   /\ err' = err
              ELSE /\ h' = [h EXCEPT ![r].trace = Visit(r),
                                     ![r].synth_calls = Append(@, i),
                                     ![r].synth_failed = @ \cup {i}]
                   /\ pc' = [pc EXCEPT ![r] = SynthFailurePc]
                   /\ err' = [err EXCEPT ![r] = "service"]
                   /\ UNCHANGED <<dirs, files, loc>>
    /\ UNCHANGED <<config, work_dir, gen, callers, args, out_exists, out_files, env_key>>
    /\ UNCHANGED call

\* the timings without the last segment file
TimingSourcesButLast(segment_paths) ==
    [i \in 1..(Len(segment_paths) - 1) |-> [path |-> segment_paths[i]]]

\* tts.py lines 145-151: one timing entry per segment path, in order, made
\* from the ffprobe of that path; its start_ms and end_ms are left out here
TimingSources(segment_paths) ==
    [i \in 1..Len(segment_paths) |-> [path |-> segment_paths[i]]]

\* subtitles.py line 68: the number of pairs of zip(segments, timings)
ZipLen(segments, timings) ==
    IF Len(segments) <= Len(timings) THEN Len(segments) ELSE Len(timings)

(* generator.py lines 122-128 and tts.py concatenate_audio: mkdir of the
   parent, ffprobe of every segment file (check=True), silence, concat *)
ConcatenateAudio(r) ==
    /\ pc[r] = "concat"
    /\ LET d       == work_dir[gen[r]]
           present == \A i \in 1..Len(loc[r].results) : loc[r].results[i] \in files
       IN  /\ dirs' = dirs \cup {d}
           /\ \E ok \in BOOLEAN :
                 IF ok /\ present
                 THEN /\ files' = files \cup {<<d, "combined", 0>>}
                      /\ loc' = [loc EXCEPT ![r].audio_dir = d,
                                            ![r].timings = TimingSources(loc[r].results)]
                      /\ h' = [h EXCEPT ![r].trace = Visit(r),
                                        ![r].touched = @ \cup {d, loc[r].tts_dir}]
                      /\ Goto(r, "p_audio_ready")
                      /\ err' = err
                 ELSE /\ Raise(r, "service")
                      /\ h' = [h EXCEPT ![r].trace = Visit(r), ![r].touched = @ \cup {d}]
                      /\ UNCHANGED <<files, loc>>
    /\ UNCHANGED <<config, work_dir, gen, callers, args, out_exists, out_files, env_key>>
    /\ UNCHANGED call

(* generator.py lines 133-138 and subtitles.py generate_srt: mkdir of the
   parent, then the write of <work_dir>/subtitles.srt *)
GenerateSrt(r) ==
    /\ pc[r] = "srt"
    /\ LET d == work_dir[gen[r]] IN
       /\ dirs' = dirs \cup {d}
       /\ \E ok \in BOOLEAN :
             IF ok
             THEN /\ files' = files \cup {<<d, "subtitles", 0>>}
                  /\ loc' = [loc EXCEPT ![r].srt_dir = d]
                  /\ Goto(r, "p_subs_ready")
                  /\ err' = err
             ELSE /\ Raise(r, "io")
                  /\ UNCHANGED <<files, loc>>
       /\ h' = [h EXCEPT ![r].trace = Visit(r), ![r].touched = @ \cup {d},
                         ![r].zipped = ZipLen(loc[r].segments, loc[r].timings)]
    /\ UNCHANGED <<config, work_dir, gen, callers, args, out_exists, out_files, env_key>>
    /\ UNCHANGED call

(* generator.py lines 143-152 and video.py create_background: mkdir of the
   parent, then img.save(<work_dir>/background.png) *)
CreateBackground(r) ==
    /\ pc[r] = "background"
    /\ LET d == work_dir[gen[r]] IN
       /\ dirs' = dirs \cup {d}
       /\ \E ok \in BOOLEAN :
             IF ok
             THEN /\ files' = files \cup {<<d, "background", 0>>}
                  /\ loc' = [loc EXCEPT ![r].bg_dir = d]
                  /\ Goto(r, "p_bg_ready")
                  /\ err' = err
             ELSE /\ Raise(r, "io")
                  /\ UNCHANGED <<files, loc>>
       /\ h' = [h EXCEPT ![r].trace = Visit(r), ![r].touched = @ \cup {d}]
    /\ UNCHANGED <<config, work_dir, gen, callers, args, out_exists, out_files, env_key>>
    /\ UNCHANGED call

(* generator.py lines 159-183: get_audio_duration (ffprobe, check=True), then
   video.py assemble_video: mkdir of the output directory and ffmpeg writing
   <output_dir>/<output_name>; a failing ffmpeg may have created the file *)
AssembleVideo(r) ==
    /\ pc[r] = "assemble"
    /\ LET audio == <<loc[r].audio_dir, "combined", 0>>
           bg    == <<loc[r].bg_dir, "background", 0>>
       IN  IF audio \notin files
           THEN /\ Raise(r, "service")
                /\ h' = [h EXCEPT ![r].trace = Visit(r)]
                /\ UNCHANGED <<out_exists, out_files>>
           ELSE /\ out_exists' = TRUE
                /\ h' = [h EXCEPT ![r].trace = Visit(r), ![r].made_out = TRUE,
                                  ![r].touched = @ \cup {loc[r].audio_dir, loc[r].bg_dir}]
                /\ \E ok \in BOOLEAN, partial \in BOOLEAN :
                      IF ok /\ bg \in files
                      THEN /\ out_files' = out_files \cup {<<r, "video">>}
                           /\ Goto(r, "p_done")
                           /\ err' = err
                      ELSE /\ out_files' = out_files \cup (IF partial THEN {<<r, "video">>} ELSE {})
                           /\ Raise(r, "service")
    /\ UNCHANGED <<config, work_dir, gen, callers, args, loc, dirs, files, env_key>>
    /\ UNCHANGED call

\* the four shutil.copy2 calls of lines 193-196, in order: kind and source
COPIES(r) == << <<"audio",      <<loc[r].audio_dir,  "combined",   0>> >>,
                <<"subtitles",  <<loc[r].srt_dir,    "subtitles",  0>> >>,
                <<"script",     <<loc[r].script_dir, "script",     0>> >>,
                <<"background", <<loc[r].bg_dir,     "background", 0>> >> >>

(* lines 188-206: copy the artifacts to the output directory and return the
   manifest; the first copy that fails raises and the later ones are not made *)
CopyArtifacts(r) ==
    /\ pc[r] = "copy"
    /\ \E k \in 0..Len(COPIES(r)) :
          /\ \A j \in 1..k : COPIES(r)[j][2] \in files
          /\ out_files' = out_files \cup {<<r, COPIES(r)[j][1]>> : j \in 1..k}
          /\ h' = [h EXCEPT ![r].trace = Visit(r),
                            ![r].touched = @ \cup {COPIES(r)[j][2][1] : j \in 1..k}]
          /\ IF k = Len(COPIES(r))
             THEN Goto(r, "finally") /\ err' = err
             ELSE Raise(r, "io")
    /\ UNCHANGED <<config, work_dir, gen, callers, args, loc, dirs, files, out_exists, env_key>>
    /\ UNCHANGED call

(* lines 66-69: the finally clause, then the return or the re-raise *)
Finally(r) ==
    /\ pc[r] = "finally"
    /\ LET d == work_dir[gen[r]] IN
       IF d # NoDir /\ d \in dirs
       THEN /\ dirs' = dirs \ {d}
            /\ files' = {f \in files : f[1] # d}
            /\ h' = [h EXCEPT ![r].removed = @ \cup {d},
                              ![r].clobbered = @ \/ (d # r /\ pc[d] \notin {"returned", "raised"})]
       ELSE UNCHANGED <<dirs, files, h>>
    /\ Goto(r, IF err[r] = "" THEN "returned" ELSE "raised")
    /\ UNCHANGED <<config, work_dir, gen, callers, args, err, loc, out_exists, out_files, env_key>>
    /\ UNCHANGED call

(* ------------------------------------------------------------------ *)
(* Inputs and initial states                                           *)
(* ------------------------------------------------------------------ *)

\* the longest script passed to generate(), in tag lines
MaxSegments == 2

\* a script of n tag lines, speakers A and B taking turns
RECURSIVE TaggedScript(_)
TaggedScript(n) ==
    IF n = 0 THEN <<>>
    ELSE (IF n = 1 THEN <<>> ELSE TaggedScript(n - 1) \o <<NL>>)
         \o <<"[", IF n % 2 = 1 THEN "A" ELSE "B", "]", " ", "x">>

ScriptArgs == {None, Some(<<>>), Some(<<"h", "i">>)}
              \cup {Some(TaggedScript(n)) : n \in 1..MaxSegments}

TopicArgs == {None, Some(<<"U">>)}

Callbacks == {"none", "ok", "raises"}

Arguments == [topic : TopicArgs, script : ScriptArgs, on_progress : Callbacks]

Configs ==
    [topic              : {<<>>, <<"T">>},
     format             : {"debate", "monologue"},
     custom_script      : {None, Some(TaggedScript(1))},
     voices             : {<<>>, <<"roger">>, <<"ROGER", "george">>},
     custom_voices      : {<<>>},
     elevenlabs_api_key : {None, Some(<<"k">>)}]

NoLocals == [raw_script |-> <<>>, script_dir |-> NoDir, segments |-> <<>>,
             tts_dir |-> NoDir, results |-> <<>>, audio_dir |-> NoDir, timings |-> <<>>,
             srt_dir |-> NoDir, bg_dir |-> NoDir]

NoHistory(cfg) ==
    [cfg0 |-> cfg, called |-> FALSE, created |-> FALSE, made_out |-> FALSE,
     parsed |-> FALSE, log |-> <<>>, trace |-> <<>>, synth_calls |-> <<>>,
     synth_failed |-> {}, touched |-> {}, removed |-> {}, clobbered |-> FALSE,
     zipped |-> 0]

InitCommon ==
    /\ work_dir = [g \in Gens |-> NoDir]
    /\ pc = [r \in Runs |-> "idle"]
    /\ err = [r \in Runs |-> ""]
    /\ loc = [r \in Runs |-> NoLocals]
    /\ dirs = {}
    /\ files = {}
    /\ out_exists = FALSE
    /\ out_files = {}
    /\ h = [r \in Runs |-> NoHistory(config[gen[r]])]

\* one generate() call on a fresh generator, any configuration and arguments
Init ==
    /\ callers = {"r1"}
    /\ gen = [r \in Runs |-> IF r = "r1" THEN "g1" ELSE "g2"]
    /\ \E c \in Configs : config = [g \in Gens |-> c]
    /\ \E a \in Arguments : args = [r \in Runs |-> a]
    /\ env_key \in {None, Some(<<"e">>)}
    /\ InitCommon
    /\ call = NoCall

\* two generate() calls, on one generator or on two, running concurrently
InitConc ==
    /\ callers = Runs
    /\ gen \in [Runs -> Gens]
    /\ config = [g \in Gens |->
                    [topic |-> <<"T">>, format |-> "debate", custom_script |-> None,
                     voices |-> <<"roger", "george">>, custom_voices |-> <<>>,
                     elevenlabs_api_key |-> Some(<<"k">>)]]
    /\ \E t \in TopicArgs :
          args = [r \in Runs |->
                     [topic |-> t, script |-> Some(TaggedScript(1)), on_progress |-> "ok"]]
    /\ env_key = None
    /\ InitCommon
    /\ call = NoCall

Next ==
    \E r \in Runs :
        \/ Generate(r)
        \/ Mkdtemp(r)
        \/ MkOutputDir(r)
        \/ Progress(r)
        \/ ScriptWrite(r)
        \/ ScriptParse(r)
        \/ TtsSetup(r)
        \/ TtsCall(r)
        \/ ConcatenateAudio(r)
        \/ GenerateSrt(r)
        \/ CreateBackground(r)
        \/ AssembleVideo(r)
        \/ CopyArtifacts(r)
        \/ Finally(r)

Spec == Init /\ [][Next]_vars

SpecConc == InitConc /\ [][Next]_vars

(* ------------------------------------------------------------------ *)
(* Direct calls of parse_script                                        *)
(* ------------------------------------------------------------------ *)

\* the pipeline variables when no generate() call is ever made
NoGenerate ==
    /\ callers = {}
    /\ gen = [r \in Runs |-> "g1"]
    /\ config = [g \in Gens |->
                    [topic |-> <<"T">>, format |-> "debate", custom_script |-> None,
                     voices |-> <<"roger", "george">>, custom_voices |-> <<>>,
                     elevenlabs_api_key |-> None]]
    /\ args = [r \in Runs |-> [topic |-> None, script |-> None, on_progress |-> "none"]]
    /\ env_key = None
    /\ InitCommon

\* the longest raw_script passed to parse_script, in lines
MaxLines == 3

\* the lines a raw_script is made of: tag lines with and without text on
\* the line, with an empty label, with blanks around the label; plain text;
\* a blank line; text holding a tag after its first character; an opening
\* bracket that is never closed
ScriptLines ==
    {<<"[", "A", "]", " ", "x">>,
     <<"[", "A", "]">>,
     <<" ", "[", " ", "B", " ", "]", "y">>,
     <<"[", "]", "z">>,
     <<"t">>,
     <<>>,
     <<"u", "[", "A", "]">>,
     <<"[", "c">>}

\* "\n".join(lines)
RECURSIVE joinlines(_)
joinlines(lines) == IF lines = <<>> THEN <<>>
                    ELSE IF Len(lines) = 1 THEN lines[1]
                    ELSE lines[1] \o <<NL>> \o joinlines(Tail(lines))

RawScripts ==
    UNION {{joinlines(ls) : ls \in [1..n -> ScriptLines]} : n \in 0..MaxLines}

InitParse ==
    /\ NoGenerate
    /\ \E raw \in RawScripts :
          call = [fn |-> "parse_script", arg |-> raw, done |-> FALSE,
                  raised |-> FALSE, ret |-> <<>>]

\* segments = parse_script(raw_script)
CallParseScript ==
    /\ call.fn = "parse_script"
    /\ ~call.done
    /\ call' = [call EXCEPT !.done = TRUE,
                            !.raised = parse_script_raises(call.arg),
                            !.ret = IF parse_script_raises(call.arg) THEN <<>>
                                    ELSE parse_script(call.arg)]
    /\ UNCHANGED pipeline_vars

NextParse == CallParseScript

SpecParse == InitParse /\ [][NextParse]_vars

(* ------------------------------------------------------------------ *)
(* Direct calls of assign_voices                                       *)
(* ------------------------------------------------------------------ *)

\* PodclawConfig(voices=..., custom_voices=...), every other field at a
\* fixed value
ConfigWith(voices, custom_voices) ==
    [topic |-> <<"T">>, format |-> "debate", custom_script |-> None,
     voices |-> voices, custom_voices |-> custom_voices,
     elevenlabs_api_key |-> None]

\* the longest segment list passed to assign_voices, and the longest roster
MaxSpeakerSegs == 3
MaxRoster == 3

Speakers == {<<"A">>, <<"B">>, <<"C">>}

SegmentLists ==
    UNION {[1..n -> [speaker : Speakers, text : {<<"x">>}]] : n \in 0..MaxSpeakerSegs}

RosterNames == {"roger", "ROGER", "george", "RawId9"}

Rosters == UNION {[1..m -> RosterNames] : m \in 0..MaxRoster}

InitAssign ==
    /\ NoGenerate
    /\ \E segments \in SegmentLists, voices \in Rosters :
          call = [fn |-> "assign_voices",
                  arg |-> [segments |-> segments, config |-> ConfigWith(voices, <<>>)],
                  done |-> FALSE, raised |-> FALSE, ret |-> <<>>]

\* segments = assign_voices(segments, config)
CallAssignVoices ==
    /\ call.fn = "assign_voices"
    /\ ~call.done
    /\ call' = [call EXCEPT
                   !.done = TRUE,
                   !.raised = assign_voices_raises(call.arg.segments, call.arg.config),
                   !.ret = IF assign_voices_raises(call.arg.segments, call.arg.config)
                           THEN <<>>
                           ELSE assign_voices(call.arg.segments, call.arg.config)]
    /\ UNCHANGED pipeline_vars

NextAssign == CallAssignVoices

SpecAssign == InitAssign /\ [][NextAssign]_vars

(* ------------------------------------------------------------------ *)
(* Direct calls of PodclawConfig.get_voice                             *)
(* ------------------------------------------------------------------ *)

\* the keys a user writes in custom_voices, in either letter case
CustomKeys == {"myvoice", "MyVoice", "roger", "ROGER"}

\* custom_voices dicts: any set of these keys, each with a voice of its own
CustomVoiceMaps ==
    {[k \in keys |-> Voice(k, "custom", "user voice")] : keys \in SUBSET CustomKeys}

InitGetVoice ==
    /\ NoGenerate
    /\ \E name \in VoiceNames, custom_voices \in CustomVoiceMaps :
          call = [fn |-> "get_voice",
                  arg |-> [name |-> name, custom_voices |-> custom_voices],
                  done |-> FALSE, raised |-> FALSE, ret |-> Voice("", "", "")]

\* voice = config.get_voice(name)
CallGetVoice ==
    /\ call.fn = "get_voice"
    /\ ~call.done
    /\ call' = [call EXCEPT !.done = TRUE,
                            !.ret = get_voice(call.arg.custom_voices, call.arg.name)]
    /\ UNCHANGED pipeline_vars

NextGetVoice == CallGetVoice

SpecGetVoice == InitGetVoice /\ [][NextGetVoice]_vars

(* ------------------------------------------------------------------ *)
(* tts.py: _get_duration_ms, concatenate_audio                         *)
(* ------------------------------------------------------------------ *)

\* ffprobe prints the duration in seconds with six decimals; the printed
\* text is written here as its count of microseconds. Line 216 is
\* int(float(text) * 1000): the milliseconds, the rest cut off (the float
\* product may fall one below for a few values; only the exact quotient
\* is modelled)
_get_duration_ms(stdout_us) == stdout_us \div 1000

\* the loop with the gap left out of the step of the cursor
RECURSIVE TimingsNoGap(_, _, _, _)
TimingsNoGap(segment_paths, probe, gap_ms, current_ms) ==
    IF segment_paths = <<>> THEN <<>>
    ELSE LET path        == Head(segment_paths)
             duration_ms == _get_duration_ms(probe[path])
         IN  <<[start_ms |-> current_ms,
                end_ms   |-> current_ms + duration_ms,
                path     |-> path]>>
             \o TimingsNoGap(Tail(segment_paths), probe, gap_ms, current_ms + duration_ms)

\* the loop of lines 145-152: segment_paths is a sequence of paths, probe
\* gives what ffprobe prints for each path
RECURSIVE Timings(_, _, _, _)
Timings(segment_paths, probe, gap_ms, current_ms) ==
    IF segment_paths = <<>> THEN <<>>
    ELSE LET path        == Head(segment_paths)
             duration_ms == _get_duration_ms(probe[path])
         IN  <<[start_ms |-> current_ms,
                end_ms   |-> current_ms + duration_ms,
                path     |-> path]>>
             \o Timings(Tail(segment_paths), probe, gap_ms, current_ms + duration_ms + gap_ms)

\* the concat list with the silence file after every segment file
RECURSIVE ConcatListSilenceAfterEach(_)
ConcatListSilenceAfterEach(segment_paths) ==
    IF segment_paths = <<>> THEN <<>>
    ELSE <<[file |-> "segment", path |-> segment_paths[1]], [file |-> "silence", path |-> 0]>>
         \o ConcatListSilenceAfterEach(Tail(segment_paths))

\* the concat list of lines 170-176: every segment file, the silence file
\* between two of them
RECURSIVE ConcatList(_)
ConcatList(segment_paths) ==
    IF segment_paths = <<>> THEN <<>>
    ELSE IF Len(segment_paths) = 1 THEN <<[file |-> "segment", path |-> segment_paths[1]]>>
    ELSE <<[file |-> "segment", path |-> segment_paths[1]], [file |-> "silence", path |-> 0]>>
         \o ConcatList(Tail(segment_paths))

\* the timing_info that concatenate_audio returns
concatenate_audio(segment_paths, probe, gap_ms) == Timings(segment_paths, probe, gap_ms, 0)

(* ------------------------------------------------------------------ *)
(* Direct calls of concatenate_audio                                   *)
(* ------------------------------------------------------------------ *)

\* the longest audio segment, in milliseconds, and the most segments
MaxDurationMs == 3
MaxTimed == 3

\* what ffprobe prints for a segment file, in microseconds: whole
\* milliseconds and 999 microseconds more
ProbeOutputs == {ms * 1000 + frac : ms \in 0..MaxDurationMs, frac \in {0, 999}}

\* gap_ms: no gap, one millisecond, the default and the pipeline's value
GapValues == {0, 1, 300, 400}

InitTimeline ==
    /\ NoGenerate
    /\ \E n \in 0..MaxTimed :
          \E probe \in [1..n -> ProbeOutputs], gap_ms \in GapValues :
              call = [fn |-> "concatenate_audio",
                      arg |-> [segment_paths |-> [i \in 1..n |-> i],
                               probe |-> probe, gap_ms |-> gap_ms],
                      done |-> FALSE, raised |-> FALSE, ret |-> <<>>, list |-> <<>>]

\* audio, timings = concatenate_audio(segment_paths, output_path, gap_ms);
\* ffprobe and ffmpeg run with check=True and may fail
CallConcatenateAudio ==
    /\ call.fn = "concatenate_audio"
    /\ ~call.done
    /\ \E ok \in BOOLEAN :
          call' = IF ok
                  THEN [call EXCEPT
                           !.done = TRUE,
                           !.ret = concatenate_audio(call.arg.segment_paths, call.arg.probe,
                                                     call.arg.gap_ms),
                           !.list = ConcatList(call.arg.segment_paths)]
                  ELSE [call EXCEPT !.done = TRUE, !.raised = TRUE]
    /\ UNCHANGED pipeline_vars

NextTimeline == CallConcatenateAudio

SpecTimeline == InitTimeline /\ [][NextTimeline]_vars

(* ------------------------------------------------------------------ *)
(* subtitles.py: _format_srt_time, _split_long_text, generate_srt      *)
(* ------------------------------------------------------------------ *)

\* the decimal digits, as characters
DigitChars == <<"0", "1", "2", "3", "4", "5", "6", "7", "8", "9">>

\* str(n) for n >= 0
RECURSIVE Decimal(_)
Decimal(n) == IF n < 10 THEN <<DigitChars[n + 1]>>
              ELSE Decimal(n \div 10) \o <<DigitChars[(n % 10) + 1]>>

\* f"{n:0<width>d}" for n >= 0: zeros in front up to the width, and no
\* digit dropped when the number is wider
RECURSIVE ZeroPad(_, _)
ZeroPad(digits, width) ==
    IF Len(digits) >= width THEN digits ELSE ZeroPad(<<"0">> \o digits, width)

\* the timestamp with the milliseconds formatted to two digits
_format_srt_time_millis_02d(ms) ==
    LET hours   == ms \div 3600000
        minutes == (ms % 3600000) \div 60000
        seconds == (ms % 60000) \div 1000
        millis  == ms % 1000
    IN  ZeroPad(Decimal(hours), 2) \o <<":">> \o ZeroPad(Decimal(minutes), 2) \o <<":">>
        \o ZeroPad(Decimal(seconds), 2) \o <<",">> \o ZeroPad(Decimal(millis), 2)

\* the timestamp HH:MM:SS,mmm as text
_format_srt_time(ms) ==
    LET hours   == ms \div 3600000
        minutes == (ms % 3600000) \div 60000
        seconds == (ms % 60000) \div 1000
        millis  == ms % 1000
    IN  ZeroPad(Decimal(hours), 2) \o <<":">> \o ZeroPad(Decimal(minutes), 2) \o <<":">>
        \o ZeroPad(Decimal(seconds), 2) \o <<",">> \o ZeroPad(Decimal(millis), 3)

\* str.split(): the maximal runs of non-blank characters
RECURSIVE split_whitespace(_)
split_whitespace(text) ==
    LET s == lstrip(text) IN
    IF s = <<>> THEN <<>>
    ELSE LET n == IF \E i \in 1..Len(s) : IsSpace(s[i])
                  THEN (CHOOSE i \in 1..Len(s) :
                            IsSpace(s[i]) /\ \A j \in 1..(i - 1) : ~IsSpace(s[j])) - 1
                  ELSE Len(s)
         IN  <<SubSeq(s, 1, n)>> \o split_whitespace(SubSeq(s, n + 1, Len(s)))

\* the loop that never closes a line: every word goes to the current one
RECURSIVE SplitWordsNeverClose(_, _, _, _, _)
SplitWordsNeverClose(words, lines, current, current_len, max_chars) ==
    IF words = <<>>
    THEN IF current # <<>> THEN Append(lines, join(current)) ELSE lines
    ELSE SplitWordsNeverClose(Tail(words), lines, Append(current, Head(words)),
                              current_len + Len(Head(words)) + 1, max_chars)

\* the loop of lines 27-34 and the flush of lines 36-37
RECURSIVE SplitWords(_, _, _, _, _)
SplitWords(words, lines, current, current_len, max_chars) ==
    IF words = <<>>
    THEN IF current # <<>> THEN Append(lines, join(current)) ELSE lines
    ELSE LET word == Head(words) IN
         IF current_len + Len(word) + 1 > max_chars /\ current # <<>>
         THEN SplitWords(Tail(words), Append(lines, join(current)), <<word>>,
                         Len(word), max_chars)
         ELSE SplitWords(Tail(words), lines, Append(current, word),
                         current_len + Len(word) + 1, max_chars)

\* the split with the text of exactly max_chars characters sent to the loop
_split_long_text_below(text, max_chars) ==
    IF Len(text) < max_chars THEN <<text>>
    ELSE SplitWords(split_whitespace(text), <<>>, <<>>, 0, max_chars)

_split_long_text(text, max_chars) ==
    IF Len(text) <= max_chars THEN <<text>>
    ELSE SplitWords(split_whitespace(text), <<>>, <<>>, 0, max_chars)

max(a, b) == IF a >= b THEN a ELSE b

\* the end of every chunk put at the next multiple of ms_per_chunk
ChunkEndEqualShares(timing, i, n_chunks, ms_per_chunk) ==
    timing.start_ms + ((i + 1) * ms_per_chunk)

\* lines 81-83: the end of chunk i (from 0) of n_chunks
ChunkEnd(timing, i, n_chunks, ms_per_chunk) ==
    IF i = n_chunks - 1 THEN timing.end_ms
    ELSE timing.start_ms + ((i + 1) * ms_per_chunk)

\* the counter set back to 1 after each segment
EntryIndexReset(entry_index, n_chunks) == 1

\* entry_index after the inner loop of lines 79-91: one more per entry
EntryIndexAfter(entry_index, n_chunks) == entry_index + n_chunks

\* lines 69-71: the text of the captions of a segment
CaptionText(seg, show_speaker_names) ==
    IF show_speaker_names THEN <<"[">> \o seg.speaker \o <<"]", " ">> \o seg.text
    ELSE seg.text

\* the body of the loop of line 68 for the k-th pair of zip(segments,
\* timings): the entries appended; seg notes the pair an entry was made
\* from and is not part of the written text
SegmentEntries(seg, timing, k, entry_index, max_chars_per_line, show_speaker_names) ==
    LET chunks       == _split_long_text(CaptionText(seg, show_speaker_names),
                                         max_chars_per_line)
        total_ms     == timing.end_ms - timing.start_ms
        ms_per_chunk == total_ms \div max(Len(chunks), 1)
    IN  [c \in 1..Len(chunks) |->
            [index |-> entry_index + (c - 1),
             start |-> _format_srt_time(timing.start_ms + ((c - 1) * ms_per_chunk)),
             end   |-> _format_srt_time(ChunkEnd(timing, c - 1, Len(chunks), ms_per_chunk)),
             text  |-> chunks[c],
             seg   |-> k]]

RECURSIVE SrtEntries(_, _, _, _, _, _)
SrtEntries(segments, timings, k, entry_index, max_chars_per_line, show_speaker_names) ==
    IF k > Len(segments) \/ k > Len(timings) THEN <<>>
    ELSE LET entries == SegmentEntries(segments[k], timings[k], k, entry_index,
                                       max_chars_per_line, show_speaker_names)
         IN  entries \o SrtEntries(segments, timings, k + 1,
                                   EntryIndexAfter(entry_index, Len(entries)),
                                   max_chars_per_line, show_speaker_names)

\* the entries that generate_srt writes to output_path
generate_srt(segments, timings, max_chars_per_line, show_speaker_names) ==
    SrtEntries(segments, timings, 1, 1, max_chars_per_line, show_speaker_names)

(* ------------------------------------------------------------------ *)
(* Direct calls of generate_srt                                        *)
(* ------------------------------------------------------------------ *)

\* the most segments given to generate_srt, the most characters of text in
\* all of them together, and the largest max_chars_per_line
MaxSrtSegs == 2
MaxTextLen == 4
MaxChars == 5

\* texts of words and blanks, of at most len characters
SrtTexts(len) == UNION {[1..n -> {"a", " "}] : n \in 0..len}

\* the lists of n segments with at most len characters of text in all
RECURSIVE SrtSegmentLists(_, _)
SrtSegmentLists(n, len) ==
    IF n = 0 THEN {<<>>}
    ELSE UNION {{<<[speaker |-> <<"S">>, text |-> text]>> \o rest :
                    rest \in SrtSegmentLists(n - 1, len - Len(text))} :
                text \in SrtTexts(len)}

SrtSegments == UNION {SrtSegmentLists(n, MaxTextLen) : n \in 0..MaxSrtSegs}

\* timings come from concatenate_audio, for segment files that all last
\* the same whole number of milliseconds
InitSrt ==
    /\ NoGenerate
    /\ \E segments \in SrtSegments :
          \E duration_ms \in 0..MaxDurationMs,
             gap_ms \in {0, 1},
             max_chars \in 1..MaxChars,
             show \in BOOLEAN :
              call = [fn |-> "generate_srt",
                      arg |-> [segments |-> segments,
                               timings |-> concatenate_audio(
                                              [i \in 1..Len(segments) |-> i],
                                              [i \in 1..Len(segments) |-> duration_ms * 1000],
                                              gap_ms),
                               max_chars_per_line |-> max_chars,
                               show_speaker_names |-> show],
                      done |-> FALSE, raised |-> FALSE, ret |-> <<>>]

\* generate_srt(segments, timings, output_path, ...); the mkdir and the
\* write of the file may fail
CallGenerateSrt ==
    /\ call.fn = "generate_srt"
    /\ ~call.done
    /\ \E ok \in BOOLEAN :
          call' = IF ok
                  THEN [call EXCEPT
                           !.done = TRUE,
                           !.ret = generate_srt(call.arg.segments, call.arg.timings,
                                                call.arg.max_chars_per_line,
                                                call.arg.show_speaker_names)]
                  ELSE [call EXCEPT !.done = TRUE, !.raised = TRUE]
    /\ UNCHANGED pipeline_vars

NextSrt == CallGenerateSrt

SpecSrt == InitSrt /\ [][NextSrt]_vars

(* ------------------------------------------------------------------ *)
(* Direct calls of _format_srt_time                                    *)
(* ------------------------------------------------------------------ *)

\* times made of few and many hours, minutes, seconds and milliseconds,
\* among them 3661500 and times of a hundred hours
SrtTimes ==
    {(hours * 3600000) + (minutes * 60000) + (seconds * 1000) + millis :
        hours \in {0, 1, 9, 10, 99, 100},
        minutes \in {0, 1, 59},
        seconds \in {0, 1, 59},
        millis \in {0, 1, 9, 10, 99, 100, 500, 999}}

InitFormat ==
    /\ NoGenerate
    /\ \E ms \in SrtTimes :
          call = [fn |-> "_format_srt_time", arg |-> ms, done |-> FALSE,
                  raised |-> FALSE, ret |-> <<>>]

\* _format_srt_time(ms)
CallFormatSrtTime ==
    /\ call.fn = "_format_srt_time"
    /\ ~call.done
    /\ call' = [call EXCEPT !.done = TRUE, !.ret = _format_srt_time(call.arg)]
    /\ UNCHANGED pipeline_vars

NextFormat == CallFormatSrtTime

SpecFormat == InitFormat /\ [][NextFormat]_vars

(* ------------------------------------------------------------------ *)
(* Direct calls of _split_long_text                                    *)
(* ------------------------------------------------------------------ *)

\* the longest text given to _split_long_text, in characters
MaxSplitLen == 6

InitSplit ==
    /\ NoGenerate
    /\ \E text \in SrtTexts(MaxSplitLen), max_chars \in 1..MaxChars :
          call = [fn |-> "_split_long_text",
                  arg |-> [text |-> text, max_chars |-> max_chars],
                  done |-> FALSE, raised |-> FALSE, ret |-> <<>>]

\* chunks = _split_long_text(text, max_chars)
CallSplitLongText ==
    /\ call.fn = "_split_long_text"
    /\ ~call.done
    /\ call' = [call EXCEPT !.done = TRUE,
                            !.ret = _split_long_text(call.arg.text, call.arg.max_chars)]
    /\ UNCHANGED pipeline_vars

NextSplit == CallSplitLongText

SpecSplit == InitSplit /\ [][NextSplit]_vars

(* ------------------------------------------------------------------ *)
(* Properties                                                          *)
(* ------------------------------------------------------------------ *)

Ended(r) == pc[r] \in {"returned", "raised"}

OutFilesOf(r) == {f \in out_files : f[1] = r}

IsPrefix(s, t) == Len(s) <= Len(t) /\ \A i \in 1..Len(s) : s[i] = t[i]

StageRank(tag) == CHOOSE i \in 1..Len(STAGES) : STAGES[i] = tag

\* C1: a generate() call that created a scratch directory has removed it by
\* the time it returns or raises, whichever statement after the creation failed.
C1_ScratchRemovedOnExit ==
    \A r \in Runs : (Ended(r) /\ h[r].created) => r \notin dirs

\* C2: nothing is in the output directory unless every pipeline step of the
\* call has succeeded; a call that raises leaves nothing there.
C2_NoOutputUnlessPipelineSucceeded ==
    \A r \in Runs :
        OutFilesOf(r) # {} =>
            \/ pc[r] \in {"p_done", "copy", "returned"}
            \/ pc[r] = "finally" /\ err[r] = ""

\* C3: a call whose script argument is empty or has no speaker tag gets no
\* segments, makes no synthesis call and writes nothing to the output
\* directory, and when it ends after parsing it ends with the no-segments error.
C3_UnparseableScriptRaisesNoSegments ==
    \A r \in Runs :
        (h[r].called /\ ~args[r].script.is_none
                     /\ parse_script(args[r].script.value) = <<>>) =>
            /\ loc[r].segments = <<>>
            /\ h[r].synth_calls = <<>>
            /\ OutFilesOf(r) = {}
            /\ (Ended(r) /\ h[r].parsed) => err[r] = "no_segments"

\* C4: the steps a call has executed are an initial part of SCRIPT, SYNTHESIS,
\* AUDIO_CONCAT, SUBTITLES, BACKGROUND, ASSEMBLE, DONE (in order, each once, none
\* re-entered), the call is in the last of them, and after a failure the call
\* is in no step at all.
C4_StepsInFixedOrder ==
    \A r \in Runs :
        /\ IsPrefix(h[r].trace, STEPS)
        /\ err[r] # "" => pc[r] \in {"finally", "raised"}
        /\ pc[r] \notin {"idle", "mkdtemp", "mkoutdir", "finally", "returned", "raised"} =>
              \/ h[r].trace # <<>> /\ Last(h[r].trace) = StepOf(pc[r])
              \/ IsPrefix(Append(h[r].trace, StepOf(pc[r])), STEPS)

C4_Witness ==
    \E r \in Runs : pc[r] = "returned" /\ h[r].trace = STEPS

\* C5: the synthesis calls are for segments 0, 1, 2, ... in that order, each
\* segment once; after a failed call for segment i there is no further call,
\* the call for i was the last, and the run is in no later stage.
C5_SynthesisInOrderFailFast ==
    \A r \in Runs :
        LET calls == h[r].synth_calls IN
        /\ \A k \in 1..Len(calls) : calls[k] = k - 1
        /\ Len(calls) <= Len(loc[r].segments)
        /\ h[r].synth_failed # {} =>
              /\ h[r].synth_failed = {Len(calls) - 1}
              /\ pc[r] \in {"finally", "raised"}
              /\ Last(h[r].trace) = "SYNTHESIS"
        /\ (\E i \in 1..Len(h[r].trace) : h[r].trace[i] = "AUDIO_CONCAT") =>
              /\ Len(calls) = Len(loc[r].segments)
              /\ h[r].synth_failed = {}

C5_Witness ==
    \E r \in Runs : pc[r] = "raised" /\ h[r].synth_failed = {1}
                    /\ h[r].synth_calls = <<0, 1>> /\ Len(loc[r].segments) > 2

\* C6: a call on a generator whose voice roster is empty has raised the
\* configuration error, and has created no scratch or output directory,
\* written no file and emitted no progress notification.
C6_EmptyRosterFailsAtOnce ==
    \A r \in Runs :
        (h[r].called /\ Len(Cfg(r).voices) = 0) =>
            /\ pc[r] = "raised" /\ err[r] = "config"
            /\ ~h[r].created /\ ~h[r].made_out
            /\ h[r].touched = {} /\ h[r].log = <<>>

NoTopicNoScript(r) ==
    /\ ~Truthy(args[r].topic) /\ h[r].cfg0.topic = <<>>
    /\ ~Truthy(args[r].script) /\ ~Truthy(h[r].cfg0.custom_script)

\* C7: a call with no topic (argument or configuration), no script argument
\* and no custom_script has raised the configuration error without creating a
\* scratch or output directory, emitting a notification or calling a service.
C7_NoTopicNoScriptRaisesAtOnce ==
    \A r \in Runs :
        (h[r].called /\ NoTopicNoScript(r)) =>
            /\ pc[r] = "raised" /\ err[r] = "config"
            /\ ~h[r].created /\ ~h[r].made_out
            /\ h[r].log = <<>> /\ h[r].trace = <<>> /\ h[r].synth_calls = <<>>
            /\ h[r].touched = {} /\ OutFilesOf(r) = {}

C7_Witness ==
    \E r \in Runs : h[r].called /\ NoTopicNoScript(r) /\ args[r].script = Some(<<>>)
                    /\ pc[r] = "raised"

\* C8: under every interleaving of two calls, a call reads and writes only the
\* scratch directory it created, and its cleanup never removes the scratch
\* directory of a call that is still in progress.
C8_RunsIsolated ==
    \A r \in Runs : h[r].touched \subseteq {r} /\ ~h[r].clobbered

\* C9: when a call has returned or raised, the generator's configuration is
\* what it was before the call.
C9_ConfigUnchanged ==
    \A r \in Runs : Ended(r) => config[gen[r]] = h[r].cfg0

\* C10: every notification of a call carries a tag of the vocabulary, the tags
\* come in the order script, tts, audio, subtitles, video, done (never an
\* earlier one after a later one), and done comes at most once.
C10_ProgressTagsMonotone ==
    \A r \in Runs :
        LET log == h[r].log IN
        /\ \A i \in 1..Len(log) : \E k \in 1..Len(STAGES) : STAGES[k] = log[i]
        /\ \A i, j \in 1..Len(log) : i < j => StageRank(log[i]) <= StageRank(log[j])
        /\ Cardinality({i \in 1..Len(log) : log[i] = "done"}) <= 1

C10_Witness ==
    \E r \in Runs : /\ pc[r] = "returned"
                    /\ {h[r].log[i] : i \in 1..Len(h[r].log)} = {STAGES[k] : k \in 1..Len(STAGES)}
                    /\ Last(h[r].log) = "done"


(* ------------------------------------------------------------------ *)
(* parse_script called directly                                        *)
(* ------------------------------------------------------------------ *)

Parsed == call.fn = "parse_script" /\ call.done

\* the trimmed lines of a script
TrimmedLines(raw) == [i \in 1..Len(split(raw)) |-> strip(split(raw)[i])]

\* a trimmed line that starts with "[" and contains "]"
TagShaped(line) == line # <<>> /\ Head(line) = "[" /\ \E i \in 1..Len(line) : line[i] = "]"

\* the label of a tag line, trimmed, and the rest of the line, trimmed
LabelOf(line) == strip(SubSeq(line, 2, index(line, "]") - 1))
RestOf(line)  == strip(SubSeq(line, index(line, "]") + 1, Len(line)))

\* tag line i of the script accumulates non-empty text: from the rest of
\* its line, or from a non-blank non-tag line before the next tag line
Accumulates(lines, i) ==
    \/ RestOf(lines[i]) # <<>>
    \/ \E j \in (i + 1)..Len(lines) :
          /\ lines[j] # <<>>
          /\ \A k \in (i + 1)..j : ~TagShaped(lines[k])

\* the labels of the tag lines that accumulate text, in script order
RECURSIVE LabelsFrom(_, _)
LabelsFrom(lines, i) ==
    IF i > Len(lines) THEN <<>>
    ELSE (IF TagShaped(lines[i]) /\ Accumulates(lines, i)
          THEN <<LabelOf(lines[i])>> ELSE <<>>) \o LabelsFrom(lines, i + 1)

SpeakersOf(segments) == [i \in 1..Len(segments) |-> segments[i].speaker]

\* C11: parse_script returns one segment per tag line that accumulates
\* non-empty text, in script order, the i-th segment's speaker being the
\* trimmed label of the i-th such tag line
C11_OneSegmentPerTagLineWithText ==
    Parsed => SpeakersOf(call.ret) = LabelsFrom(TrimmedLines(call.arg), 1)

NoTagLines(raw) == \A i \in 1..Len(split(raw)) : ~TagShaped(TrimmedLines(raw)[i])

\* C12: parse_script never raises, and a script that is empty, blank or
\* without any tag line gives the empty sequence of segments
C12_ParseTotalEmptyWithoutTags ==
    Parsed => /\ ~call.raised
              /\ NoTagLines(call.arg) => call.ret = <<>>

\* text before the first tag line, and no tag line at all
C12_Witness ==
    /\ Parsed
    /\ NoTagLines(call.arg)
    /\ strip(call.arg) # <<>>
    /\ ~call.raised
    /\ call.ret = <<>>

(* ------------------------------------------------------------------ *)
(* assign_voices called directly                                       *)
(* ------------------------------------------------------------------ *)

Assigned == call.fn = "assign_voices" /\ call.done /\ ~call.raised

\* the 0-based rank of the speaker of segment i among the distinct
\* speakers in first-seen order
FirstSeen(segments, i) ==
    CHOOSE j \in 1..i : /\ segments[j].speaker = segments[i].speaker
                        /\ \A k \in 1..(j - 1) : segments[k].speaker # segments[i].speaker

Rank(segments, i) ==
    Cardinality({segments[k].speaker : k \in 1..(FirstSeen(segments, i) - 1)})

\* the roster entries resolved to voices
RosterVoices == [m \in 1..Len(call.arg.config.voices) |->
                    get_voice(call.arg.config.custom_voices, call.arg.config.voices[m])]

\* C13: each segment gets the voice roster[r mod M], r being the rank of
\* its speaker among the distinct speakers in first-seen order; the speaker
\* and text of the segment are kept
C13_VoiceByFirstSeenRank ==
    Assigned =>
        /\ Len(call.ret) = Len(call.arg.segments)
        /\ \A i \in 1..Len(call.ret) :
              /\ call.ret[i].speaker = call.arg.segments[i].speaker
              /\ call.ret[i].text = call.arg.segments[i].text
              /\ call.ret[i].voice =
                    RosterVoices[(Rank(call.arg.segments, i) % Len(RosterVoices)) + 1]

\* three speakers on a roster of two: the third speaker wraps around to the
\* first voice, and a speaker seen again keeps its voice
C13_Witness ==
    /\ Assigned
    /\ Len(call.ret) = 3
    /\ Len(RosterVoices) = 2
    /\ RosterVoices[1] # RosterVoices[2]
    /\ \E i, j \in 1..3 :
          /\ i # j
          /\ call.ret[i].speaker # call.ret[j].speaker
          /\ Rank(call.arg.segments, j) = 2
          /\ call.ret[i].voice = call.ret[j].voice

DistinctSpeakers == {call.arg.segments[i].speaker : i \in 1..Len(call.arg.segments)}

VoicesUsed == {call.ret[i].voice : i \in 1..Len(call.ret)}

Min(a, b) == IF a < b THEN a ELSE b

\* C14 as stated: with K distinct speakers and a roster of M >= 1 entries
\* the segments get exactly min(K, M) distinct voices
C14_VoicesUsedMinKM ==
    Assigned =>
        Cardinality(VoicesUsed) = Min(Cardinality(DistinctSpeakers), Len(RosterVoices))

\* C14 amended: the voices the segments get are exactly the voices of the
\* first min(K, M) roster entries, so there are min(K, M) of them when
\* these entries resolve to pairwise different voices and fewer otherwise
C14_VoicesUsedAreFirstRosterEntries ==
    Assigned =>
        LET n == Min(Cardinality(DistinctSpeakers), Len(RosterVoices)) IN
        /\ VoicesUsed = {RosterVoices[m] : m \in 1..n}
        /\ (\A a, b \in 1..n : a # b => RosterVoices[a] # RosterVoices[b])
              => Cardinality(VoicesUsed) = n
        /\ Cardinality(VoicesUsed) <= n

\* two speakers on a roster of two names for one voice: one voice is used
C14_Witness ==
    /\ Assigned
    /\ Cardinality(DistinctSpeakers) = 2
    /\ Len(RosterVoices) = 2
    /\ Cardinality(VoicesUsed) = 1

(* ------------------------------------------------------------------ *)
(* get_voice called directly                                           *)
(* ------------------------------------------------------------------ *)

\* the keys of a dict that equal the name when letter case is ignored
KeysMatching(dict, name) == {k \in DOMAIN dict : lower(k) = lower(name)}

\* C15: get_voice never fails and returns the custom voice whose key equals
\* the name ignoring case, else the preset whose key equals the name
\* ignoring case, else a profile whose voice_id is the name unchanged
C15_GetVoicePriority ==
    (call.fn = "get_voice" /\ call.done) =>
        /\ ~call.raised
        /\ IF KeysMatching(call.arg.custom_voices, call.arg.name) # {}
           THEN \E k \in KeysMatching(call.arg.custom_voices, call.arg.name) :
                    call.ret = call.arg.custom_voices[k]
           ELSE IF KeysMatching(VOICES, call.arg.name) # {}
           THEN \E k \in KeysMatching(VOICES, call.arg.name) : call.ret = VOICES[k]
           ELSE call.ret.voice_id = call.arg.name

(* ------------------------------------------------------------------ *)
(* concatenate_audio called directly                                   *)
(* ------------------------------------------------------------------ *)

Concatenated == call.fn = "concatenate_audio" /\ call.done /\ ~call.raised

\* C16: every timing entry of concatenate_audio has end_ms > start_ms
C16_TimingEndAfterStart ==
    Concatenated => \A i \in 1..Len(call.ret) : call.ret[i].end_ms > call.ret[i].start_ms

(* ------------------------------------------------------------------ *)
(* generate_srt called directly                                        *)
(* ------------------------------------------------------------------ *)

Written == call.fn = "generate_srt" /\ call.done /\ ~call.raised

\* the number a character stands for: its digit, and 10 for any other
DigitValue(c) ==
    CASE c = "0" -> 0 [] c = "1" -> 1 [] c = "2" -> 2 [] c = "3" -> 3 [] c = "4" -> 4
      [] c = "5" -> 5 [] c = "6" -> 6 [] c = "7" -> 7 [] c = "8" -> 8 [] c = "9" -> 9
      [] OTHER -> 10

\* the number written by a run of digits
RECURSIVE NumberOf(_)
NumberOf(digits) ==
    IF digits = <<>> THEN 0
    ELSE (10 * NumberOf(SubSeq(digits, 1, Len(digits) - 1))) + DigitValue(digits[Len(digits)])

\* the milliseconds a written timestamp H..H:MM:SS,mmm stands for, read
\* from its end
SrtTimeMs(t) ==
    LET n == Len(t) IN
    (NumberOf(SubSeq(t, 1, n - 10)) * 3600000)
    + (NumberOf(SubSeq(t, n - 8, n - 7)) * 60000)
    + (NumberOf(SubSeq(t, n - 5, n - 4)) * 1000)
    + NumberOf(SubSeq(t, n - 2, n))

StartMs(e) == SrtTimeMs(e.start)

EndMs(e) == SrtTimeMs(e.end)

\* the entries made from the k-th segment, in output order
EntriesOf(k) == SelectSeq(call.ret, LAMBDA e : e.seg = k)

\* C17: the entries, in output order, have strictly increasing time ranges
\* that do not overlap: each starts before it ends and no earlier than the
\* entry before it ends
C17_EntriesIncreasingNoOverlap ==
    Written =>
        \A i \in 1..Len(call.ret) :
            /\ StartMs(call.ret[i]) < EndMs(call.ret[i])
            /\ i > 1 => StartMs(call.ret[i]) >= EndMs(call.ret[i - 1])

\* the sum of the first n numbers of a sequence
RECURSIVE SumLengths(_, _)
SumLengths(lengths, n) == IF n = 0 THEN 0 ELSE SumLengths(lengths, n - 1) + lengths[n]

\* C18: the chunks of a segment tile its range [start_ms, end_ms): the
\* first starts at start_ms, each next one starts where the one before
\* ends, the last ends at end_ms, every chunk but the last lasts
\* (end_ms - start_ms) div C, and the lengths add up to end_ms - start_ms
C18_ChunksTileSegment ==
    Written =>
        \A k \in 1..Len(call.arg.segments) :
            LET es     == EntriesOf(k)
                C      == Len(es)
                timing == call.arg.timings[k]
                start  == [c \in 1..C |-> StartMs(es[c])]
                end    == [c \in 1..C |-> EndMs(es[c])]
            IN  C >= 1 =>
                  /\ start[1] = timing.start_ms
                  /\ \A c \in 2..C : start[c] = end[c - 1]
                  /\ end[C] = timing.end_ms
                  /\ \A c \in 1..(C - 1) :
                        end[c] - start[c] = (timing.end_ms - timing.start_ms) \div C
                  /\ SumLengths([c \in 1..C |-> end[c] - start[c]], C)
                        = timing.end_ms - timing.start_ms

\* a segment of 3 ms in two chunks: 1 ms and then 2 ms
C18_Witness ==
    /\ Written
    /\ \E k \in 1..Len(call.arg.segments) :
          /\ Len(EntriesOf(k)) = 2
          /\ call.arg.timings[k].end_ms - call.arg.timings[k].start_ms = 3
          /\ EndMs(EntriesOf(k)[1]) - StartMs(EntriesOf(k)[1]) = 1
          /\ EndMs(EntriesOf(k)[2]) - StartMs(EntriesOf(k)[2]) = 2

\* the caption text of the k-th segment: its text, after "[speaker] " when
\* speaker names are shown
CaptionOf(k) ==
    IF call.arg.show_speaker_names
    THEN <<"[">> \o call.arg.segments[k].speaker \o <<"]", " ">> \o call.arg.segments[k].text
    ELSE call.arg.segments[k].text

ShortCaption(k) == Len(CaptionOf(k)) <= call.arg.max_chars_per_line

OneEntryFullRange(k) ==
    /\ Len(EntriesOf(k)) = 1
    /\ StartMs(EntriesOf(k)[1]) = call.arg.timings[k].start_ms
    /\ EndMs(EntriesOf(k)[1]) = call.arg.timings[k].end_ms

\* C19 as stated: a segment whose caption text has at most max_chars
\* characters gets exactly one entry, with the segment's start_ms and
\* end_ms and with the segment's text as its text
C19_ShortSegmentOneEntrySegmentText ==
    Written =>
        \A k \in 1..Len(call.arg.segments) :
            ShortCaption(k) =>
                /\ OneEntryFullRange(k)
                /\ EntriesOf(k)[1].text = call.arg.segments[k].text

\* C19 amended: such a segment gets exactly one entry, with the segment's
\* start_ms and end_ms and with the caption text as its text: the segment's
\* text, after "[speaker] " when speaker names are shown
C19_ShortSegmentOneEntryCaptionText ==
    Written =>
        \A k \in 1..Len(call.arg.segments) :
            ShortCaption(k) =>
                /\ OneEntryFullRange(k)
                /\ EntriesOf(k)[1].text = CaptionOf(k)

\* a caption text of exactly max_chars characters, the speaker name and
\* one word, in one entry
C19_Witness ==
    /\ Written
    /\ call.arg.show_speaker_names
    /\ \E k \in 1..Len(call.arg.segments) :
          /\ Len(CaptionOf(k)) = call.arg.max_chars_per_line
          /\ Len(split_whitespace(CaptionOf(k))) = 2
          /\ OneEntryFullRange(k)
          /\ EntriesOf(k)[1].text = CaptionOf(k)

\* C20: the entries carry the indices 1, 2, ..., E in output order
C20_IndicesContiguousFromOne ==
    Written => \A i \in 1..Len(call.ret) : call.ret[i].index = i

\* a first segment in two chunks, then a segment in one: indices 1, 2, 3
C20_Witness ==
    /\ Written
    /\ Len(EntriesOf(1)) = 2
    /\ Len(EntriesOf(2)) = 1
    /\ call.ret[3].index = 3
    /\ call.ret[3].seg = 2

(* ------------------------------------------------------------------ *)
(* _format_srt_time called directly                                    *)
(* ------------------------------------------------------------------ *)

Formatted == call.fn = "_format_srt_time" /\ call.done

\* C21: below 360,000,000 ms the timestamp is HH:MM:SS,mmm, twelve
\* characters: two digits of ms div 3,600,000, two of the minutes, two of
\* the seconds, three of ms mod 1,000, with minutes and seconds below 60,
\* and the four numbers add up to ms again
C21_TimestampFields ==
    (Formatted /\ call.arg >= 0 /\ call.arg < 360000000) =>
        LET t  == call.ret
            H  == (10 * DigitValue(t[1])) + DigitValue(t[2])
            M  == (10 * DigitValue(t[4])) + DigitValue(t[5])
            S  == (10 * DigitValue(t[7])) + DigitValue(t[8])
            ms == (100 * DigitValue(t[10])) + (10 * DigitValue(t[11])) + DigitValue(t[12])
        IN  /\ Len(t) = 12
            /\ t[3] = ":" /\ t[6] = ":" /\ t[9] = ","
            /\ \A i \in {1, 2, 4, 5, 7, 8, 10, 11, 12} : DigitValue(t[i]) < 10
            /\ H = call.arg \div 3600000
            /\ M = (call.arg % 3600000) \div 60000
            /\ S = (call.arg % 60000) \div 1000
            /\ ms = call.arg % 1000
            /\ M < 60 /\ S < 60
            /\ (3600000 * H) + (60000 * M) + (1000 * S) + ms = call.arg

\* 3,661,500 ms gives 01:01:01,500
C21_Witness ==
    /\ Formatted
    /\ call.arg = 3661500
    /\ call.ret = <<"0", "1", ":", "0", "1", ":", "0", "1", ",", "5", "0", "0">>

(* ------------------------------------------------------------------ *)
(* Progress notifications of a generate() call                         *)
(* ------------------------------------------------------------------ *)

\* how often a tag is in the notifications the caller has received
CountTag(r, tag) == Cardinality({i \in 1..Len(h[r].log) : h[r].log[i] = tag})

\* the per-segment reports among them: the "tts" notifications after the
\* first, which announces the synthesis stage
SegmentReports(r) == IF CountTag(r, "tts") = 0 THEN 0 ELSE CountTag(r, "tts") - 1

\* C22: the progress report for segment i is made after the synthesis call
\* for segment i: at every point of a run there are at most as many
\* per-segment reports as synthesis calls made
C22_ReportAfterSynthesisCall ==
    \A r \in Runs : SegmentReports(r) <= Len(h[r].synth_calls)

\* C23: in a successful run every transition between consecutive pipeline
\* states emits exactly one notification, so the caller receives as many
\* notifications as there are transitions
C23_OneNotificationPerTransition ==
    \A r \in Runs :
        (pc[r] = "returned" /\ args[r].on_progress # "none") =>
            Len(h[r].log) = Len(h[r].trace) - 1

\* C24: the "done" notification comes only after the video, audio,
\* subtitles, script and background are in the output directory, and a run
\* that has emitted it returns
C24_DoneAfterArtifactsInPlace ==
    \A r \in Runs :
        CountTag(r, "done") > 0 =>
            /\ {<<r, kind>> : kind \in {"video", "audio", "subtitles", "script", "background"}}
                  \subseteq out_files
            /\ Ended(r) => pc[r] = "returned"

(* ------------------------------------------------------------------ *)
(* The text of the segments of parse_script                            *)
(* ------------------------------------------------------------------ *)

\* the non-blank lines from line j up to the next tag line or the end
RECURSIVE FollowingText(_, _)
FollowingText(lines, j) ==
    IF j > Len(lines) \/ TagShaped(lines[j]) THEN <<>>
    ELSE (IF lines[j] = <<>> THEN <<>> ELSE <<lines[j]>>) \o FollowingText(lines, j + 1)

\* the text that belongs to tag line i: the rest of the line and the lines
\* that follow it, joined by single spaces
OwnText(lines, i) ==
    join((IF RestOf(lines[i]) = <<>> THEN <<>> ELSE <<RestOf(lines[i])>>)
         \o FollowingText(lines, i + 1))

\* C25: each returned segment has the text of its own tag line and of the
\* plain lines up to the next tag line, and nothing from another tag line:
\* the segments can be matched, in order, to tag lines of their label whose
\* own text is the segment's text
C25_SegmentTextFromOwnTagLine ==
    Parsed =>
        LET lines == TrimmedLines(call.arg) IN
        \E f \in [1..Len(call.ret) -> 1..Len(lines)] :
            /\ \A j \in 1..Len(call.ret) :
                  /\ TagShaped(lines[f[j]])
                  /\ LabelOf(lines[f[j]]) = call.ret[j].speaker
                  /\ OwnText(lines, f[j]) = call.ret[j].text
            /\ \A j, k \in 1..Len(call.ret) : j < k => f[j] < f[k]

(* ------------------------------------------------------------------ *)
(* The timeline and the concat list of concatenate_audio               *)
(* ------------------------------------------------------------------ *)

\* the measured duration of segment i: what ffprobe printed, in whole
\* milliseconds
DurationMs(i) == call.arg.probe[i] \div 1000

RECURSIVE SumDurations(_)
SumDurations(n) == IF n = 0 THEN 0 ELSE SumDurations(n - 1) + DurationMs(n)

\* C26: the first segment starts at 0, every segment ends its duration
\* after it starts, every later segment starts gap_ms after the one before
\* ends, and the last one ends at the sum of the durations plus (N - 1)
\* gaps
C26_TimelineArithmetic ==
    (Concatenated /\ Len(call.arg.segment_paths) >= 1) =>
        LET N == Len(call.arg.segment_paths)
            t == call.ret
        IN  /\ Len(t) = N
            /\ t[1].start_ms = 0
            /\ \A i \in 1..N : t[i].end_ms = t[i].start_ms + DurationMs(i)
            /\ \A i \in 2..N : t[i].start_ms = t[i - 1].end_ms + call.arg.gap_ms
            /\ t[N].end_ms = SumDurations(N) + ((N - 1) * call.arg.gap_ms)

\* three segments of 1, 2 and 3 ms with gaps of 400 ms: the last ends at 806
C26_Witness ==
    /\ Concatenated
    /\ Len(call.ret) = 3
    /\ call.arg.gap_ms = 400
    /\ DurationMs(1) = 1 /\ DurationMs(2) = 2 /\ DurationMs(3) = 3
    /\ call.ret[3].start_ms = 803
    /\ call.ret[3].end_ms = 806

\* C27: the concat list is the segment files in order with one silence
\* file between each two of them: 2N - 1 entries, a segment file first and
\* last
C27_ConcatListInterleaved ==
    (Concatenated /\ Len(call.arg.segment_paths) >= 1) =>
        LET N == Len(call.arg.segment_paths)
            l == call.list
        IN  /\ Len(l) = (2 * N) - 1
            /\ \A i \in 1..N : /\ l[(2 * i) - 1].file = "segment"
                               /\ l[(2 * i) - 1].path = call.arg.segment_paths[i]
            /\ \A i \in 1..(N - 1) : l[2 * i].file = "silence"

\* three segment files: five entries
C27_Witness ==
    /\ Concatenated
    /\ Len(call.arg.segment_paths) = 3
    /\ Len(call.list) = 5
    /\ call.list[2].file = "silence"
    /\ call.list[5] = [file |-> "segment", path |-> 3]

(* ------------------------------------------------------------------ *)
(* _split_long_text called directly                                    *)
(* ------------------------------------------------------------------ *)

Split == call.fn = "_split_long_text" /\ call.done

\* C28: on a text longer than max_chars a word goes to the current line
\* exactly when the line, a space and the word fit in max_chars: a line of
\* several words fits, and the first word of a line did not fit on the line
\* before it
C28_GreedyWrapRule ==
    (Split /\ Len(call.arg.text) > call.arg.max_chars) =>
        /\ \A k \in 1..Len(call.ret) :
              Len(split_whitespace(call.ret[k])) >= 2 =>
                  Len(call.ret[k]) <= call.arg.max_chars
        /\ \A k \in 1..(Len(call.ret) - 1) :
              Len(call.ret[k]) + 1 + Len(Head(split_whitespace(call.ret[k + 1])))
                  > call.arg.max_chars

\* the words of the chunks, in order
RECURSIVE WordsOfChunks(_)
WordsOfChunks(chunks) ==
    IF chunks = <<>> THEN <<>>
    ELSE split_whitespace(Head(chunks)) \o WordsOfChunks(Tail(chunks))

\* C29: no word is split: the words of the chunks, in order, are the
\* words of the text, and a chunk longer than max_chars is a single word
C29_WordsKeptWhole ==
    Split =>
        /\ WordsOfChunks(call.ret) = split_whitespace(call.arg.text)
        /\ \A k \in 1..Len(call.ret) :
              Len(call.ret[k]) > call.arg.max_chars =>
                  Len(split_whitespace(call.ret[k])) = 1

\* a word of three characters alone in its chunk for max_chars = 2, and
\* the next word in the next chunk
C29_Witness ==
    /\ Split
    /\ call.arg.max_chars = 2
    /\ call.ret = << <<"a", "a", "a">>, <<"a">> >>

(* ------------------------------------------------------------------ *)
(* Segments and timings in a generate() call                           *)
(* ------------------------------------------------------------------ *)

\* the call has its timings and is in the subtitle stage or behind it
ReachedSubtitles(r) ==
    pc[r] \in {"srt", "p_subs_ready", "p_bg", "background", "p_bg_ready", "p_assemble",
               "assemble", "p_done", "copy", "returned"}

\* C30: in a run that reaches the subtitle stage there is one timing entry
\* per parsed segment, entry i is made from the audio file synthesized for
\* segment i, and generate_srt pairs every segment with a timing
C30_TimingsParallelToSegments ==
    \A r \in Runs :
        ReachedSubtitles(r) =>
            /\ Len(loc[r].timings) = Len(loc[r].segments)
            /\ \A i \in 1..Len(loc[r].timings) :
                  /\ loc[r].timings[i].path = <<loc[r].tts_dir, "segment", i - 1>>
                  /\ h[r].synth_calls[i] = i - 1
            /\ pc[r] # "srt" => h[r].zipped = Len(loc[r].segments)

\* a run of two segments after generate_srt
C30_Witness ==
    \E r \in Runs :
        /\ pc[r] = "p_subs_ready"
        /\ Len(loc[r].segments) = 2
        /\ Len(loc[r].timings) = 2
        /\ h[r].zipped = 2
====
